---- MODULE Spec2Model ----
(***************************************************************************)
(* Per-connection detection session of wyoming-microwakeword               *)
(* (src/wyoming_microwakeword/__main__.py, MicroWakeWordEventHandler).     *)
(*                                                                         *)
(* Each connection owns one handler object: its pending model selection    *)
(* (self.models), its detector pool (self.detectors) and the events it has *)
(* written to the client.  clock is the latest value time.monotonic() has  *)
(* returned; every call returns a value that is not smaller.  The          *)
(* inference call detector.mww.process_streaming(features) is external:    *)
(* whether it fires is a nondeterministic input of the step that calls it. *)
(* The chunk timestamp copied into a Detection and the free-text metadata  *)
(* of an Info are payload that no transition reads; they are left out.     *)
(*                                                                         *)
(* main() builds the catalog of custom models (custom_models) by scanning  *)
(* the configured directories before the server runs; SpecStartup is that  *)
(* scan.  Spec, SpecAll and SpecCorrupt start from a built catalog.        *)
(***************************************************************************)
EXTENDS Integers, Sequences, FiniteSets, TLC

\* Python's None where a string is expected
None == "None"

\* Python's None where a clock reading is expected (Optional[float])
NoTime == -1

--------------------------------------------------------------------------
\* Bounds of the model
MaxClock == 2      \* largest reading of the monotonic clock
MaxEvents == 4     \* events handled over all connections
MaxFrames == 2     \* feature frames the extractor yields for one chunk
MaxNames == 2      \* length of the names list of one Detect
MaxFiles == 3      \* config files found in the custom model directories

--------------------------------------------------------------------------
\* Program constants and the catalog

\* --refractory-seconds, default 2.0
RefractorySeconds == 2

\* pymicro_wakeword.Model: the builtin models, in enum order
BuiltinModels == <<"okay_nabu", "hey_jarvis">>

\* the names of the custom models the deployed service accepted at startup
CustomModels == <<"my_word">>

\* --custom-model-dir may be given several times; the directories are
\* scanned in the order given
Dirs == {1, 2}

\* config_path.stem of the config files
Stems == {"my_word", "other_word"}

\* what may be wrong with a config file, by the first test of lines 92-106
\* it does not pass ("not_micro": the type field is absent or not "micro")
Faults == {"none", "unreadable", "malformed", "not_micro", "no_model_field",
           "no_model_file"}

\* a config file: its directory, its name without .json, its fault
ConfigFiles == [dir : Dirs, stem : Stems, fault : Faults]

\* Model.OKAY_NABU
DEFAULT_MODEL == [kind |-> "builtin", name |-> "okay_nabu"]

\* the names clients put in Detect.names: a builtin model, a custom model
\* and a name the catalog does not know
Names == {"okay_nabu", "my_word", "no_such_model"}

\* the connections, one handler object each
Sessions == {"c1", "c2"}

\* the elements of a list
Range(f) == {f[i] : i \in DOMAIN f}

--------------------------------------------------------------------------
\* State

VARIABLES
    clock,      \* the latest reading of time.monotonic() in the process
    connected,  \* connected[s]: the connection of handler s is open
    models,     \* models[s]: self.models, the pending selection (a set)
    detectors,  \* detectors[s]: self.detectors, the pool (a list)
    pos,        \* pos[s]: where handler s stands inside handle_event
    out,        \* out[s]: the events written to the client of s, in order
    streaming,  \* streaming[s]: an AudioStart was handled, no AudioStop since
    streamId,   \* streamId[s]: number of AudioStart events handled by s
    last,       \* last[s]: the type of the event s handled last
    lastDetect, \* lastDetect[s]: the most recent Detect of s, if any: its names
                \* in the order of their first occurrence, and whether the list
                \* repeated a name
    firings,    \* firings[s][i]: how often detectors[s][i] has fired: 0, 1, 2 or more
    handled,    \* handled[s]: number of events s has handled
    corrupt,    \* the models whose model files do not load (constructor raises)
    files,      \* the config files of the custom model directories, in scan order
    scanned,    \* number of config files the loop of main() is through with
    custom_models, \* custom_models of main(): the accepted entries, in insertion order
    startup     \* main(): "scanning" the directories, "serving", or "aborted"

\* what no event handler writes: the model files and the catalog of main()
env == <<corrupt, files, scanned, custom_models, startup>>

\* what main() does not touch: the state of the handlers
handlers == <<clock, connected, models, detectors, pos, out, streaming, streamId,
              last, lastDetect, firings, handled>>

vars == <<handlers, env>>

\* faulty variant: every detector reports under the name of the default model
NewDetectorDefaultName(model) ==
    [name |-> DEFAULT_MODEL.name, mww |-> model, detected |-> FALSE,
     last_detected |-> NoTime]

\* class Detector: a fresh instance bound to one model
NewDetector(model) ==
    [name |-> model.name, mww |-> model, detected |-> FALSE, last_detected |-> NoTime]

\* the handler is between two events.  Inside the AudioChunk handler, frames
\* counts the frames still to process, idx is the position of the inner loop
\* in the pool, and chunk / frame are the number of events written when the
\* chunk arrived / when the current frame was taken up
Idle == [pc |-> "idle", frames |-> 0, idx |-> 0, chunk |-> 0, frame |-> 0]

\* handle_event was left by an exception: the handler takes no more events
Raised == [Idle EXCEPT !.pc = "raised"]

\* an event the handler wrote: type, model name (Detection), model list (Info).
\* stream is the stream it was written in; at is the clock reading the
\* handler takes for a Detection (line 199), filled in when it is taken
Written(s, type, name, list) ==
    [type |-> type, name |-> name, models |-> list,
     stream |-> streamId[s], at |-> NoTime]

\* the values a call of time.monotonic() may return
Readings == clock..MaxClock

\* the sum of f over S
RECURSIVE SumOver(_, _)
SumOver(f, S) ==
    IF S = {} THEN 0
    ELSE LET x == CHOOSE y \in S : TRUE IN f[x] + SumOver(f, S \ {x})

\* the server reads the next event of connection s and calls handle_event;
\* MaxEvents events are handled in all
CanHandle(s) ==
    /\ startup = "serving"
    /\ connected[s]
    /\ pos[s].pc = "idle"
    /\ SumOver(handled, Sessions) < MaxEvents

\* the names of a list in the order of their first occurrence
RECURSIVE FirstOccurrences(_)
FirstOccurrences(names) ==
    IF names = <<>> THEN <<>>
    ELSE LET front == FirstOccurrences(SubSeq(names, 1, Len(names) - 1))
             name == names[Len(names)]
         IN  IF name \in Range(front) THEN front ELSE Append(front, name)

\* bookkeeping of the event being handled
Handled(s, type) ==
    /\ handled' = [handled EXCEPT ![s] = @ + 1]
    /\ last' = [last EXCEPT ![s] = type]

InitSessions ==
    /\ clock = 0
    /\ connected = [s \in Sessions |-> TRUE]
    /\ models = [s \in Sessions |-> {}]
    /\ detectors = [s \in Sessions |-> <<>>]
    /\ pos = [s \in Sessions |-> Idle]
    /\ out = [s \in Sessions |-> <<>>]
    /\ streaming = [s \in Sessions |-> FALSE]
    /\ streamId = [s \in Sessions |-> 0]
    /\ last = [s \in Sessions |-> None]
    /\ lastDetect = [s \in Sessions |-> [received |-> FALSE, names |-> <<>>, repeats |-> FALSE]]
    /\ firings = [s \in Sessions |-> <<>>]
    /\ handled = [s \in Sessions |-> 0]

\* the catalog after main() scanned one directory holding one good config
\* file for each name of CustomModels
InitCatalog ==
    /\ files = [i \in DOMAIN CustomModels |->
                  [dir |-> 1, stem |-> CustomModels[i], fault |-> "none"]]
    /\ scanned = Len(files)
    /\ custom_models = [i \in DOMAIN CustomModels |->
                          [name |-> CustomModels[i], file |-> i]]
    /\ startup = "serving"

\* the service as deployed: the catalog is built and every model file loads
Init ==
    /\ InitSessions
    /\ InitCatalog
    /\ corrupt = {}

--------------------------------------------------------------------------
\* Detect: lines 200-213

\* faulty variant: the custom models are not looked up
ResolveBuiltinOnly(name) ==
    IF name \in Range(BuiltinModels) THEN {[kind |-> "builtin", name |-> name]}
    ELSE {}

\* the keys of custom_models, in insertion order
CatalogNames == [i \in DOMAIN custom_models |-> custom_models[i].name]

\* self.custom_models.get(name) first, then Model(name); ValueError drops it
ResolveName(name) ==
    IF name \in Range(CatalogNames) THEN {[kind |-> "custom", name |-> name]}
    ELSE IF name \in Range(BuiltinModels) THEN {[kind |-> "builtin", name |-> name]}
    ELSE {}

\* the loop over detect.names, adding to the set
RECURSIVE AddNames(_, _)
AddNames(names, acc) ==
    IF names = <<>> THEN acc
    ELSE AddNames(Tail(names), acc \cup ResolveName(Head(names)))

\* faulty variant: Detect takes effect at once, dropping the detectors of the pool
\* whose model is not in the new selection
HandleDetectRetroactive(s, names) ==
    /\ CanHandle(s)
    /\ models' = [models EXCEPT ![s] = AddNames(names, {})]
    /\ lastDetect' = [lastDetect EXCEPT ![s] =
                        [received |-> TRUE, names |-> FirstOccurrences(names),
                         repeats |-> Len(FirstOccurrences(names)) < Len(names)]]
    /\ LET Selected(d) == d.mww \in AddNames(names, {})
       IN  detectors' = [detectors EXCEPT ![s] = SelectSeq(@, Selected)]
    /\ firings' = [firings EXCEPT ![s] = [i \in DOMAIN detectors'[s] |-> 0]]
    /\ Handled(s, "Detect")
    /\ UNCHANGED <<clock, connected, pos, out, streaming, streamId, env>>

\* faulty variant: the selection is kept once for all handlers (an attribute of
\* the class instead of the instance)
HandleDetectShared(s, names) ==
    /\ CanHandle(s)
    /\ models' = [t \in Sessions |-> AddNames(names, {})]
    /\ lastDetect' = [lastDetect EXCEPT ![s] =
                        [received |-> TRUE, names |-> FirstOccurrences(names),
                         repeats |-> Len(FirstOccurrences(names)) < Len(names)]]
    /\ Handled(s, "Detect")
    /\ UNCHANGED <<clock, connected, detectors, pos, out, streaming, streamId, firings, env>>

\* names is detect.names; None and [] are both falsy and modelled as <<>>
HandleDetect(s, names) ==
    /\ CanHandle(s)
    /\ models' = [models EXCEPT ![s] = AddNames(names, {})]
    /\ lastDetect' = [lastDetect EXCEPT ![s] =
                        [received |-> TRUE, names |-> FirstOccurrences(names),
                         repeats |-> Len(FirstOccurrences(names)) < Len(names)]]
    /\ Handled(s, "Detect")
    /\ UNCHANGED <<clock, connected, detectors, pos, out, streaming, streamId, firings, env>>

--------------------------------------------------------------------------
\* AudioStart: lines 214-235

\* the orders in which "for model in self.models" may visit a set
Orders(S) ==
    {q \in [1..Cardinality(S) -> S] : \A i, j \in DOMAIN q : q[i] = q[j] => i = j}

\* faulty variant: another builtin model is the default
SelectionOtherDefault(sel) ==
    IF sel = {} THEN {[kind |-> "builtin", name |-> "hey_jarvis"]} ELSE sel

\* if not self.models: self.models.add(DEFAULT_MODEL)
Selection(sel) == IF sel = {} THEN {DEFAULT_MODEL} ELSE sel

\* faulty variant: the loop is left after the first model
BuildPoolFirstOnly(order) ==
    [i \in DOMAIN order \cap {1} |-> NewDetector(order[i])]

\* self.detectors = [] and one append per model visited
BuildPool(order) == [i \in DOMAIN order |-> NewDetector(order[i])]

\* the position in the order of the first model whose constructor raises
\* (MicroWakeWord.from_builtin / from_config, lines 222-226), 0 if none does
FirstRaising(order) ==
    IF \E i \in DOMAIN order : order[i] \in corrupt
    THEN CHOOSE i \in DOMAIN order :
            /\ order[i] \in corrupt
            /\ \A j \in 1..(i - 1) : order[j] \notin corrupt
    ELSE 0

\* the models visited before the loop is left: all of them, or those before
\* the one whose constructor raises
Visited(order) ==
    IF FirstRaising(order) = 0 THEN order
    ELSE SubSeq(order, 1, FirstRaising(order) - 1)

\* faulty variant: a pool that is not empty is kept as it is
HandleAudioStartKeeping(s) ==
    /\ CanHandle(s)
    /\ models' = [models EXCEPT ![s] = Selection(@)]
    /\ \E order \in Orders(Selection(models[s])) :
          /\ detectors' = [detectors EXCEPT ![s] =
                              IF @ # <<>> THEN @ ELSE BuildPool(Visited(order))]
          /\ firings' = [firings EXCEPT ![s] =
                            IF detectors[s] # <<>> THEN @
                            ELSE [i \in DOMAIN detectors'[s] |-> 0]]
          /\ pos' = [pos EXCEPT ![s] = IF FirstRaising(order) = 0 THEN Idle ELSE Raised]
    /\ streaming' = [streaming EXCEPT ![s] = TRUE]
    /\ streamId' = [streamId EXCEPT ![s] = @ + 1]
    /\ Handled(s, "AudioStart")
    /\ UNCHANGED <<clock, connected, out, lastDetect, env>>

\* no try around the constructors: an exception leaves handle_event
HandleAudioStart(s) ==
    /\ CanHandle(s)
    /\ models' = [models EXCEPT ![s] = Selection(@)]
    /\ \E order \in Orders(Selection(models[s])) :
          /\ detectors' = [detectors EXCEPT ![s] = BuildPool(Visited(order))]
          /\ firings' = [firings EXCEPT ![s] = [i \in DOMAIN detectors'[s] |-> 0]]
          /\ pos' = [pos EXCEPT ![s] = IF FirstRaising(order) = 0 THEN Idle ELSE Raised]
    /\ streaming' = [streaming EXCEPT ![s] = TRUE]
    /\ streamId' = [streamId EXCEPT ![s] = @ + 1]
    /\ Handled(s, "AudioStart")
    /\ UNCHANGED <<clock, connected, out, lastDetect, env>>

--------------------------------------------------------------------------
\* AudioChunk: lines 172-199

\* faulty variant: the window closes one reading late (<= for <)
InRefractoryInclusive(last_detected, now) ==
    /\ last_detected # NoTime
    /\ (now - last_detected) <= RefractorySeconds

\* faulty variant: the window is one second short
InRefractoryShort(last_detected, now) ==
    /\ last_detected # NoTime
    /\ (now - last_detected) < RefractorySeconds - 1

\* the refractory test of lines 177-180
InRefractory(last_detected, now) ==
    /\ last_detected # NoTime
    /\ (now - last_detected) < RefractorySeconds

\* faulty variant: the pool is walked from its end
DetectorAtReversed(s) == Len(detectors[s]) + 1 - pos[s].idx

\* the index in the pool of the detector the inner loop is at
\* (for detector in self.detectors)
DetectorAt(s) == pos[s].idx

\* position after the detector the loop is at is done with the current
\* frame: the next detector, else the first detector on the next frame, else
\* the end of the handler
NextPos(s) ==
    IF pos[s].idx < Len(detectors[s])
    THEN [pos[s] EXCEPT !.pc = "detect", !.idx = @ + 1]
    ELSE IF pos[s].frames > 1
         THEN [pos[s] EXCEPT !.pc = "detect", !.frames = @ - 1, !.idx = 1,
                             !.frame = Len(out[s])]
         ELSE Idle

\* the chunk arrives; the feature extractor yields n frames for it
HandleAudioChunk(s, n) ==
    /\ CanHandle(s)
    /\ pos' = [pos EXCEPT ![s] =
                 IF n = 0 \/ detectors[s] = <<>> THEN Idle
                 ELSE [pc |-> "detect", frames |-> n, idx |-> 1,
                       chunk |-> Len(out[s]), frame |-> Len(out[s])]]
    /\ Handled(s, "AudioChunk")
    /\ UNCHANGED <<clock, connected, models, detectors, out, streaming, streamId,
                   lastDetect, firings, env>>

\* one more firing of a detector that has fired n times (2 stands for 2 or more)
Fire(n) == IF n < 2 THEN n + 1 ELSE n

\* faulty variant: a suppressed firing restarts the window
SuppressRestarting(pool, i, now) == [pool EXCEPT ![i].last_detected = now]

\* the continue of line 180: the detector is left as it is
Suppress(pool, i, now) == pool

\* one pass of the inner loop body up to write_event (lines 176-197):
\* fired is what detector.mww.process_streaming(features) returned, now is
\* what time.monotonic() returns at line 178, which is reached only when
\* last_detected is set
ProcessStreaming(s, fired, now) ==
    /\ pos[s].pc = "detect"
    /\ LET i == DetectorAt(s)
           d == detectors[s][i]
       IN  IF ~fired
           THEN /\ now = clock
                /\ pos' = [pos EXCEPT ![s] = NextPos(s)]
                /\ UNCHANGED <<clock, detectors, out, firings>>
           ELSE /\ (d.last_detected = NoTime) => (now = clock)
                /\ clock' = now
                /\ firings' = [firings EXCEPT ![s][i] = Fire(@)]
                /\ IF InRefractory(d.last_detected, now)
                   THEN /\ detectors' = [detectors EXCEPT ![s] = Suppress(@, i, now)]
                        /\ pos' = [pos EXCEPT ![s] = NextPos(s)]
                        /\ UNCHANGED out
                   ELSE /\ out' = [out EXCEPT ![s] =
                              Append(@, Written(s, "Detection", d.name, <<>>))]
                        /\ pos' = [pos EXCEPT ![s].pc = "stamp"]
                        /\ UNCHANGED detectors
    /\ UNCHANGED <<connected, models, streaming, streamId, last, lastDetect,
                   handled, env>>

\* faulty variant: the flag and the time are kept once for the whole pool
StampAll(pool, i, now) ==
    [k \in DOMAIN pool |-> [pool[k] EXCEPT !.detected = TRUE, !.last_detected = now]]

\* lines 198-199 on detector i of the pool
Stamp(pool, i, now) ==
    [pool EXCEPT ![i].detected = TRUE, ![i].last_detected = now]

\* write_event returned: detected and last_detected are set (lines 198-199);
\* now is what time.monotonic() returns at line 199
StampDetection(s, now) ==
    /\ pos[s].pc = "stamp"
    /\ clock' = now
    /\ detectors' = [detectors EXCEPT ![s] = Stamp(@, DetectorAt(s), now)]
    /\ out' = [out EXCEPT ![s] = [@ EXCEPT ![Len(@)].at = now]]
    /\ pos' = [pos EXCEPT ![s] = NextPos(s)]
    /\ UNCHANGED <<connected, models, streaming, streamId, last, lastDetect,
                   firings, handled, env>>

--------------------------------------------------------------------------
\* AudioStop: lines 236-246

\* faulty variant: only the first detector of the pool is looked at
FirstDetected(pool) == pool # <<>> /\ pool[1].detected

\* any(d.detected for d in self.detectors)
AnyDetected(pool) == \E i \in DOMAIN pool : pool[i].detected

\* faulty variant: the pool is not cleared
KeepPool(pool) == pool

\* self.detectors.clear()
ClearPool(pool) == <<>>

HandleAudioStop(s) ==
    /\ CanHandle(s)
    /\ out' = [out EXCEPT ![s] =
                 IF ~AnyDetected(detectors[s])
                 THEN Append(@, Written(s, "NotDetected", None, <<>>))
                 ELSE @]
    /\ detectors' = [detectors EXCEPT ![s] = ClearPool(@)]
    /\ firings' = [firings EXCEPT ![s] = [i \in DOMAIN detectors'[s] |-> @[i]]]
    /\ streaming' = [streaming EXCEPT ![s] = FALSE]
    /\ Handled(s, "AudioStop")
    /\ UNCHANGED <<clock, connected, models, pos, streamId, lastDetect, env>>

--------------------------------------------------------------------------
\* Describe (lines 247-250, 259-311), other events (251-252), disconnect

\* faulty variant: the custom models are listed first
GetInfoCustomFirst == CatalogNames \o BuiltinModels

\* _get_info: the builtin models (for model in Model), then the custom
\* models in the order of the catalog; their config files are read again
\* for the descriptions and are taken to be as they were at startup
GetInfo == BuiltinModels \o CatalogNames

HandleDescribe(s) ==
    /\ CanHandle(s)
    /\ out' = [out EXCEPT ![s] = Append(@, Written(s, "Info", "microWakeWord", GetInfo))]
    /\ Handled(s, "Describe")
    /\ UNCHANGED <<clock, connected, models, detectors, pos, streaming, streamId,
                   lastDetect, firings, env>>

\* an event of any other type is logged and ignored
HandleOther(s) ==
    /\ CanHandle(s)
    /\ Handled(s, "Other")
    /\ UNCHANGED <<clock, connected, models, detectors, pos, out, streaming, streamId,
                   lastDetect, firings, env>>

\* the connection ends, by the client or after an exception of the handler;
\* disconnect() (lines 256-257) only logs
Disconnect(s) ==
    /\ connected[s]
    /\ pos[s].pc \in {"idle", "raised"}
    /\ connected' = [connected EXCEPT ![s] = FALSE]
    /\ UNCHANGED <<clock, models, detectors, pos, out, streaming, streamId,
                   last, lastDetect, firings, handled, env>>

--------------------------------------------------------------------------
\* main(): the scan of the custom model directories (lines 86-112)

\* the position of name among the keys of the catalog, 0 if it is not a key
KeyOf(catalog, name) ==
    IF \E i \in DOMAIN catalog : catalog[i].name = name
    THEN CHOOSE i \in DOMAIN catalog : catalog[i].name = name
    ELSE 0

\* faulty variant: a name that is in the catalog already is not skipped
ExamineAgain(f, catalog) ==
    IF f.fault \in {"unreadable", "malformed"} THEN "raise"
    ELSE IF f.fault = "not_micro" THEN "skip"
    ELSE IF f.fault = "no_model_field" THEN "raise"
    ELSE IF f.fault = "no_model_file" THEN "skip"
    ELSE "accept"

\* what the loop body does with config file f: "skip" (continue), "accept",
\* or "raise" (an exception that nothing in main() catches).  In the order of
\* the code: the duplicate test (92-94), open and json.load (96-97), the
\* type test (99-101), config["model"] (103), model_path.exists() (104-106)
Examine(f, catalog) ==
    IF KeyOf(catalog, f.stem) # 0 THEN "skip"
    ELSE IF f.fault \in {"unreadable", "malformed"} THEN "raise"
    ELSE IF f.fault = "not_micro" THEN "skip"
    ELSE IF f.fault = "no_model_field" THEN "raise"
    ELSE IF f.fault = "no_model_file" THEN "skip"
    ELSE "accept"

\* custom_models[model_name] = CustomModel(...) for config file number k: a
\* dict assignment, which replaces the value of a key that exists
Assign(catalog, name, k) ==
    IF KeyOf(catalog, name) # 0
    THEN [catalog EXCEPT ![KeyOf(catalog, name)].file = k]
    ELSE Append(catalog, [name |-> name, file |-> k])

\* one pass of the loop body of lines 90-112, on the next config file
ScanConfig ==
    /\ startup = "scanning"
    /\ scanned < Len(files)
    /\ LET k == scanned + 1
           what == Examine(files[k], custom_models)
       IN  /\ scanned' = k
           /\ custom_models' = IF what = "accept"
                               THEN Assign(custom_models, files[k].stem, k)
                               ELSE custom_models
           /\ startup' = IF what = "raise" THEN "aborted" ELSE startup
    /\ UNCHANGED <<handlers, corrupt, files>>

\* the loops are through: "Ready" is logged and the server runs (114-133)
StartServer ==
    /\ startup = "scanning"
    /\ scanned = Len(files)
    /\ startup' = "serving"
    /\ UNCHANGED <<handlers, corrupt, files, scanned, custom_models>>

--------------------------------------------------------------------------
\* Specifications

NameLists == UNION {[1..n -> Names] : n \in 0..MaxNames}

\* a step of handler s, with the names lists of Detect events and the frame
\* counts of chunks drawn from the given sets
SessionStep(s, lists, counts) ==
    \/ \E names \in lists : HandleDetect(s, names)
    \/ HandleAudioStart(s)
    \/ \E n \in counts : HandleAudioChunk(s, n)
    \/ \E fired \in BOOLEAN, now \in Readings : ProcessStreaming(s, fired, now)
    \/ \E now \in Readings : StampDetection(s, now)
    \/ HandleAudioStop(s)
    \/ HandleDescribe(s)
    \/ HandleOther(s)
    \/ Disconnect(s)

SessionNext(s) == SessionStep(s, NameLists, 0..MaxFrames)

\* one connection is served; the handler of the other stays as constructed
Next == SessionNext("c1")

Spec == Init /\ [][Next]_vars

\* both connections are served, their events interleaved in any order; a
\* Detect names nothing or the custom model, a chunk yields at most one frame
NextAll == \E s \in Sessions : SessionStep(s, {<<>>, <<"my_word">>}, {0, 1})

SpecAll == Init /\ [][NextAll]_vars

\* the model files of some custom models of the catalog do not load
InitCorrupt ==
    /\ InitSessions
    /\ InitCatalog
    /\ corrupt \in SUBSET {[kind |-> "custom", name |-> n] : n \in Range(CustomModels)}
    /\ corrupt # {}

SpecCorrupt == InitCorrupt /\ [][Next]_vars

\* the config files main() may find: up to MaxFiles, directory by directory,
\* no two of one directory with the same name
ScanLists ==
    {f \in UNION {[1..n -> ConfigFiles] : n \in 0..MaxFiles} :
        \A i, j \in DOMAIN f :
            i < j => /\ f[i].dir <= f[j].dir
                     /\ f[i].dir = f[j].dir => f[i].stem # f[j].stem}

\* startup: main() enters the scan with an empty catalog
InitStartup ==
    /\ InitSessions
    /\ corrupt = {}
    /\ files \in ScanLists
    /\ scanned = 0
    /\ custom_models = <<>>
    /\ startup = "scanning"

NextStartup == ScanConfig \/ StartServer

SpecStartup == InitStartup /\ [][NextStartup]_vars

--------------------------------------------------------------------------
\* Properties

\* the names a catalog lookup resolves
Resolvable == Range(BuiltinModels) \cup Range(CustomModels)

\* the resolvable names among those of a names list
ResolvableOf(names) == Range(names) \cap Resolvable

\* the names of the detectors of a pool, in pool order
PoolNames(pool) == [i \in DOMAIN pool |-> pool[i].name]

\* the positions in a log of the Detection events of a model written in stream k
DetectionsOf(log, k, name) ==
    {j \in DOMAIN log :
        log[j].type = "Detection" /\ log[j].stream = k /\ log[j].name = name}

\* the positions in a log of the Detection events written in stream k
DetectionsIn(log, k) ==
    {j \in DOMAIN log : log[j].type = "Detection" /\ log[j].stream = k}

\* the events the step writes to the client of s
WrittenNow(s) == SubSeq(out'[s], Len(out[s]) + 1, Len(out'[s]))

\* the step is handler s taking an event of the given type
Handles(s, type) == handled'[s] = handled[s] + 1 /\ last'[s] = type

\* C1: within one stream, when a detector fires for the second time, the
\* stream holds exactly one Detection of it if the reading of the second
\* firing is less than RefractorySeconds after the reading of the first, and
\* exactly two if it is RefractorySeconds or more after it.
C1_TwoFirings ==
    [][\A s \in Sessions : \A i \in DOMAIN firings[s] \cap DOMAIN firings'[s] :
          (firings[s][i] = 1 /\ firings'[s][i] = 2) =>
              LET d == detectors[s][i]
                  n == Cardinality(DetectionsOf(out'[s], streamId[s], d.name))
              IN  IF clock' - d.last_detected < RefractorySeconds
                  THEN n = 1 ELSE n = 2]_vars

\* C1 witness: a pool in which one detector fired twice for one Detection and
\* another fired twice for two.
C1_Witness ==
    \E s \in Sessions : \E i, j \in DOMAIN detectors[s] :
        /\ pos[s].pc = "idle"
        /\ firings[s][i] = 2 /\ firings[s][j] = 2
        /\ Cardinality(DetectionsOf(out[s], streamId[s], detectors[s][i].name)) = 1
        /\ Cardinality(DetectionsOf(out[s], streamId[s], detectors[s][j].name)) = 2

\* C2 as claimed: any two Detection events of one model on a connection,
\* whatever their streams, are at least RefractorySeconds apart.
C2_AcrossStreams ==
    \A s \in Sessions : \A i, j \in DOMAIN out[s] :
        ( /\ i < j
          /\ out[s][i].type = "Detection" /\ out[s][j].type = "Detection"
          /\ out[s][i].name = out[s][j].name
          /\ out[s][i].at # NoTime /\ out[s][j].at # NoTime )
        => out[s][j].at - out[s][i].at >= RefractorySeconds

\* C2 amended: any two Detection events of one model written in the same
\* stream are at least RefractorySeconds apart.
C2_WithinStream ==
    \A s \in Sessions : \A i, j \in DOMAIN out[s] :
        ( /\ i < j
          /\ out[s][i].type = "Detection" /\ out[s][j].type = "Detection"
          /\ out[s][i].name = out[s][j].name
          /\ out[s][i].stream = out[s][j].stream
          /\ out[s][i].at # NoTime /\ out[s][j].at # NoTime )
        => out[s][j].at - out[s][i].at >= RefractorySeconds

\* C2 witness: two Detection events of one model in one stream, both timed.
C2_Witness ==
    \E s \in Sessions : \E i, j \in DOMAIN out[s] :
        /\ i < j
        /\ out[s][i].type = "Detection" /\ out[s][j].type = "Detection"
        /\ out[s][i].name = out[s][j].name
        /\ out[s][i].stream = out[s][j].stream
        /\ out[s][i].at # NoTime /\ out[s][j].at # NoTime

\* C3: the AudioStop that ends a stream writes exactly one NotDetected if no
\* Detection was written since the stream's AudioStart, and nothing otherwise.
C3_StopSummary ==
    [][\A s \in Sessions :
          (streaming[s] /\ Handles(s, "AudioStop")) =>
              IF DetectionsIn(out[s], streamId[s]) = {}
              THEN /\ Len(WrittenNow(s)) = 1
                   /\ WrittenNow(s)[1].type = "NotDetected"
              ELSE WrittenNow(s) = <<>>]_vars

\* C3 witness: a stream with a Detection has ended and no NotDetected was
\* written for it.
C3_Witness ==
    \E s \in Sessions :
        /\ last[s] = "AudioStop" /\ ~streaming[s] /\ streamId[s] = 1
        /\ DetectionsIn(out[s], 1) # {}
        /\ \A j \in DOMAIN out[s] : out[s][j].type # "NotDetected"

\* C4 as claimed: an AudioStop handled right after another AudioStop writes
\* no NotDetected.
C4_SecondStopSilent ==
    [][\A s \in Sessions :
          (last[s] = "AudioStop" /\ Handles(s, "AudioStop")) =>
              \A j \in DOMAIN WrittenNow(s) : WrittenNow(s)[j].type # "NotDetected"]_vars

\* C5: when no Detect was received, or the most recent one names no
\* resolvable model, AudioStart builds a pool of exactly one detector, for
\* the builtin model okay_nabu.
C5_DefaultPool ==
    [][\A s \in Sessions :
          (Handles(s, "AudioStart") /\ (~lastDetect[s].received
                                           \/ ResolvableOf(lastDetect[s].names) = {})) =>
              /\ PoolNames(detectors'[s]) = <<"okay_nabu">>
              /\ detectors'[s][1].mww.kind = "builtin"]_vars

\* C5 witness: a Detect naming only an unknown model, then AudioStart, left
\* the default pool.
C5_Witness ==
    \E s \in Sessions :
        /\ streaming[s] /\ streamId[s] = 1
        /\ lastDetect[s].received /\ lastDetect[s].names = <<"no_such_model">>
        /\ PoolNames(detectors[s]) = <<"okay_nabu">>

\* C6: when the most recent Detect names a resolvable model, AudioStart
\* builds a pool with exactly one detector for each distinct resolvable name
\* of that Detect, and no other detector.
C6_PoolOfSelection ==
    [][\A s \in Sessions :
          (Handles(s, "AudioStart") /\ lastDetect[s].received
                                      /\ ResolvableOf(lastDetect[s].names) # {}) =>
              /\ Range(PoolNames(detectors'[s])) = ResolvableOf(lastDetect[s].names)
              /\ Len(detectors'[s]) = Cardinality(ResolvableOf(lastDetect[s].names))]_vars

\* C6 witness: a Detect naming one custom model twice, then AudioStart, gave
\* a pool of one detector.
C6_Witness ==
    \E s \in Sessions :
        /\ streaming[s] /\ handled[s] = 2
        /\ lastDetect[s].received
        /\ lastDetect[s].names = <<"my_word">>
        /\ lastDetect[s].repeats
        /\ PoolNames(detectors[s]) = <<"my_word">>

\* C7: while the handler works on one detector of the pool (its inference
\* step, the refractory test, the Detection and the update of its flag and
\* time), every other detector of the pool is unchanged.
C7_OtherDetectorsUnchanged ==
    [][\A s \in Sessions : \A j \in DOMAIN detectors[s] :
          (pos[s].pc \in {"detect", "stamp"} /\ DetectorAt(s) # j) =>
              /\ j \in DOMAIN detectors'[s]
              /\ detectors'[s][j] = detectors[s][j]]_vars

\* C7 witness: in a pool of two, one detector fired twice and was reported,
\* the other never fired and is as it was built.
C7_Witness ==
    \E s \in Sessions : \E i, j \in DOMAIN detectors[s] :
        /\ i # j
        /\ firings[s][i] = 2 /\ detectors[s][i].detected
        /\ firings[s][j] = 0
        /\ detectors[s][j] = NewDetector(detectors[s][j].mww)

\* C8: a Detect handled while a stream is active leaves the pool and the
\* written events as they are and only replaces the pending selection.
C8_DetectWhileStreaming ==
    [][\A s \in Sessions :
          (streaming[s] /\ Handles(s, "Detect")) =>
              /\ detectors'[s] = detectors[s]
              /\ out'[s] = out[s]
              /\ streaming'[s]
              /\ {m.name : m \in models'[s]} = ResolvableOf(lastDetect'[s].names)]_vars

\* C8 witness: during a stream of the default model a Detect selected
\* another model; the pool is still the default one.
C8_Witness ==
    \E s \in Sessions :
        /\ streaming[s] /\ streamId[s] = 1
        /\ lastDetect[s].received /\ lastDetect[s].names = <<"my_word">>
        /\ {m.name : m \in models[s]} = {"my_word"}
        /\ PoolNames(detectors[s]) = <<"okay_nabu">>

\* C9: the pool is non-empty exactly while a stream is active.
C9_PoolIffStreaming ==
    \A s \in Sessions : (detectors[s] # <<>>) <=> streaming[s]

\* C9 witness: a stream was started and stopped and another is active.
C9_Witness ==
    \E s \in Sessions :
        /\ streamId[s] = 2 /\ streaming[s] /\ detectors[s] # <<>>
        /\ \E j \in DOMAIN out[s] : out[s][j].type = "NotDetected"

\* C10 as claimed: the disconnect of a connection leaves its pool empty, and
\* writes nothing when the pool was empty.
C10_DisconnectTearsDown ==
    [][\A s \in Sessions :
          (connected[s] /\ ~connected'[s]) =>
              /\ detectors'[s] = <<>>
              /\ (detectors[s] = <<>> => out'[s] = out[s])]_vars

\* C11: while a stream is active, every Detection written in it carries the
\* name of the model of a detector of the pool built at its AudioStart; when
\* that pool was built for a single model, every Detection of the stream has
\* the name of that model.
C11_DetectionNamesPool ==
    \A s \in Sessions :
        streaming[s] =>
            \A j \in DetectionsIn(out[s], streamId[s]) :
                \E i \in DOMAIN detectors[s] :
                    out[s][j].name = detectors[s][i].mww.name

\* C11 witness: Detect(names=["my_word"]), AudioStart, and a Detection named
\* my_word was written in the stream.
C11_Witness ==
    \E s \in Sessions :
        /\ streaming[s]
        /\ lastDetect[s].received /\ lastDetect[s].names = <<"my_word">>
        /\ handled[s] = 3
        /\ Len(detectors[s]) = 1 /\ detectors[s][1].mww.name = "my_word"
        /\ \E j \in DetectionsIn(out[s], streamId[s]) : out[s][j].name = "my_word"

StepOf(s) ==
    \/ handled'[s] # handled[s]
    \/ pos'[s] # pos[s]
    \/ connected'[s] # connected[s]

\* C13: with two connections served in any interleaving, a step of the
\* handler of one connection leaves the other handler's pending selection,
\* its pool (flags and times) and the events written to its client
\* unchanged, and leaves the catalog unchanged.
C13_SessionsIsolated ==
    [][\A a, b \in Sessions :
          (a # b /\ StepOf(a) /\ ~StepOf(b)) =>
              /\ models'[b] = models[b]
              /\ detectors'[b] = detectors[b]
              /\ out'[b] = out[b]
              /\ custom_models' = custom_models]_vars

\* C13 witness: one connection selected my_word and had it reported while
\* the other, started in between with no selection, runs the default model
\* and has nothing written.
C13_Witness ==
    /\ streaming["c1"] /\ streaming["c2"]
    /\ PoolNames(detectors["c1"]) = <<"my_word">>
    /\ PoolNames(detectors["c2"]) = <<"okay_nabu">>
    /\ detectors["c1"][1].detected /\ ~detectors["c2"][1].detected
    /\ models["c1"] # models["c2"]
    /\ out["c2"] = <<>> /\ Len(out["c1"]) = 1

\* C14: when the constructor of the detector of a selected model raises at
\* AudioStart, the pool holds the detectors of exactly the other selected
\* models and the handler goes on to take the next event.
C14_ConstructionFailureNonFatal ==
    [][\A s \in Sessions :
          (Handles(s, "AudioStart") /\ models'[s] \cap corrupt # {}) =>
              /\ {detectors'[s][i].mww : i \in DOMAIN detectors'[s]}
                    = models'[s] \ corrupt
              /\ pos'[s].pc = "idle"]_vars

\* the step takes main() through config file number k of the scan
Scans(k) == scanned = k - 1 /\ scanned' = k

\* C15: when the scan at startup comes to a config file that is unreadable,
\* is not JSON, has no "micro" type tag, has no model field or names a model
\* file that does not exist, it leaves the catalog as it is and goes on
\* scanning: startup is not aborted.
C15_FaultyConfigSkipped ==
    [][\A k \in DOMAIN files :
          (Scans(k) /\ files[k].fault # "none") =>
              /\ custom_models' = custom_models
              /\ startup' = "scanning"]_vars

\* the scanned config files with the given name that pass every test of the
\* loop body
Acceptable(name) ==
    {j \in 1..scanned : files[j].stem = name /\ files[j].fault = "none"}

\* in the catalog, every name has one entry, and it is the first scanned
\* config file of that name that passes the tests
FirstAccepted ==
    /\ \A i \in DOMAIN custom_models :
          /\ custom_models[i].file \in Acceptable(custom_models[i].name)
          /\ \A j \in Acceptable(custom_models[i].name) : custom_models[i].file <= j
    /\ \A i, j \in DOMAIN custom_models :
          custom_models[i].name = custom_models[j].name => i = j

\* C18: at every point of the scan, the catalog entry of a name is the first
\* scanned config file of that name that passes the tests, and a step of the
\* scan never changes or removes an entry: a later file of the same name is
\* skipped.
C18_FirstAcceptedWins ==
    /\ []FirstAccepted
    /\ [][\A i \in DOMAIN custom_models :
             /\ i \in DOMAIN custom_models'
             /\ custom_models'[i] = custom_models[i]]_vars

\* C18 witness: two directories each hold a good config file my_word.json;
\* both were scanned and the entry is the one of the first directory.
C18_Witness ==
    /\ scanned = 2
    /\ files[1] = [dir |-> 1, stem |-> "my_word", fault |-> "none"]
    /\ files[2] = [dir |-> 2, stem |-> "my_word", fault |-> "none"]
    /\ custom_models = <<[name |-> "my_word", file |-> 1]>>

\* the position in the pool of the detector of the given name
PoolIndex(pool, name) == CHOOSE i \in DOMAIN pool : pool[i].name = name

\* the step is the AudioChunk handler of s writing a Detection
WritesDetection(s) ==
    pos[s].pc = "detect" /\ Len(out'[s]) = Len(out[s]) + 1

\* the Detection the step writes comes after the events out[s][j], j > from,
\* of other detectors only if those detectors are earlier in the pool
InPoolOrderSince(s, from) ==
    LET new == out'[s][Len(out'[s])].name
    IN  \A j \in (from + 1)..Len(out[s]) :
            out[s][j].name # new =>
                PoolIndex(detectors[s], out[s][j].name) < PoolIndex(detectors[s], new)

\* C16 as stated: the Detections written while one AudioChunk is handled,
\* whatever the number of frames, are in pool order as far as they are of
\* distinct detectors.
C16_ChunkInPoolOrder ==
    [][\A s \in Sessions :
          WritesDetection(s) => InPoolOrderSince(s, pos[s].chunk)]_vars

\* C16 amended: the Detections written for one feature frame are in pool
\* order as far as they are of distinct detectors; the frames of a chunk are
\* taken one after the other, each through the whole pool.
C16_FrameInPoolOrder ==
    [][\A s \in Sessions :
          /\ WritesDetection(s) => InPoolOrderSince(s, pos[s].frame)
          /\ (pos[s].pc # "idle" /\ pos'[s].pc # "idle") =>
                /\ pos'[s].frames <= pos[s].frames
                /\ pos'[s].frames = pos[s].frames => pos'[s].idx >= pos[s].idx
                /\ pos'[s].frames < pos[s].frames =>
                      /\ pos[s].idx = Len(detectors[s])
                      /\ pos'[s].idx = 1]_vars

\* C16 witness: both detectors of a pool of two fired on the same frame and
\* the second Detection has just been written.
C16_Witness ==
    \E s \in Sessions :
        /\ pos[s].pc = "stamp"
        /\ Len(detectors[s]) = 2
        /\ Len(out[s]) = pos[s].frame + 2
        /\ out[s][Len(out[s])].name = detectors[s][2].name
        /\ out[s][Len(out[s]) - 1].name = detectors[s][1].name

\* the names of a list that the catalog resolves, in the order of the list
ResolvableIn(names) ==
    LET Known(name) == name \in Resolvable IN SelectSeq(names, Known)

\* C17 as stated: the pool built at AudioStart lists the resolvable names of
\* the most recent Detect in the order of their first occurrence in its list.
C17_FirstOccurrenceOrder ==
    [][\A s \in Sessions :
          (Handles(s, "AudioStart") /\ lastDetect[s].received
                                      /\ ResolvableOf(lastDetect[s].names) # {}) =>
              PoolNames(detectors'[s]) = ResolvableIn(lastDetect[s].names)]_vars

\* C17 amended: the pool built at AudioStart holds one detector for each
\* model of the selection, no model twice, in some order; it is the order of
\* the names list when the list has at most one resolvable name.
C17_PoolSomeOrder ==
    [][\A s \in Sessions :
          Handles(s, "AudioStart") =>
              /\ {detectors'[s][i].mww : i \in DOMAIN detectors'[s]} = models'[s]
              /\ \A i, j \in DOMAIN detectors'[s] :
                    detectors'[s][i].mww = detectors'[s][j].mww => i = j
              /\ (lastDetect[s].received /\ Len(ResolvableIn(lastDetect[s].names)) = 1) =>
                    PoolNames(detectors'[s]) = ResolvableIn(lastDetect[s].names)]_vars

\* C17 witness: after Detect(names=["okay_nabu", "my_word"]) the pool built
\* at AudioStart has my_word first.
C17_Witness ==
    \E s \in Sessions :
        /\ last[s] = "AudioStart" /\ handled[s] = 2
        /\ lastDetect[s].names = <<"okay_nabu", "my_word">>
        /\ PoolNames(detectors[s]) = <<"my_word", "okay_nabu">>

\* C19: an AudioStart handled while a stream is active writes no event and
\* replaces the pool by detectors of the selection whose flag is false and
\* whose time is unset; the AudioStop that follows writes NotDetected when
\* no Detection was written since that AudioStart, whatever was written in
\* the abandoned stream.
C19_RestartIsFresh ==
    [][\A s \in Sessions :
          /\ (streaming[s] /\ Handles(s, "AudioStart")) =>
                /\ out'[s] = out[s]
                /\ streaming'[s]
                /\ detectors'[s] # <<>>
                /\ {detectors'[s][i].mww : i \in DOMAIN detectors'[s]} = models'[s]
                /\ \A i \in DOMAIN detectors'[s] :
                      /\ ~detectors'[s][i].detected
                      /\ detectors'[s][i].last_detected = NoTime
          /\ (streaming[s] /\ streamId[s] > 1 /\ Handles(s, "AudioStop")
                           /\ DetectionsIn(out[s], streamId[s]) = {}) =>
                /\ Len(WrittenNow(s)) = 1
                /\ WrittenNow(s)[1].type = "NotDetected"]_vars

\* C19 witness: AudioStart, a chunk with a Detection, a second AudioStart
\* with no AudioStop before it, then AudioStop: the only events written are
\* the Detection of the first stream and the NotDetected of the second.
C19_Witness ==
    \E s \in Sessions :
        /\ handled[s] = 4 /\ last[s] = "AudioStop" /\ streamId[s] = 2
        /\ Len(out[s]) = 2
        /\ out[s][1].type = "Detection" /\ out[s][1].stream = 1
        /\ out[s][2].type = "NotDetected" /\ out[s][2].stream = 2

\* the step is handler s finding that the detector the loop is at fired
FiringStep(s) ==
    pos[s].pc = "detect" /\ \E now \in Readings : ProcessStreaming(s, TRUE, now)

\* the largest element of a set of numbers that is not empty
Latest(S) == CHOOSE j \in S : \A k \in S : k <= j

\* C20: when a detector fires, its last-detected time, if set, is the time
\* taken for its last Detection of the stream.  If the reading of the
\* refractory test is less than RefractorySeconds after it, the firing
\* leaves the whole pool (flags and times) and the written events as they
\* are; otherwise a Detection of the detector is written.
C20_SuppressedFiring ==
    [][\A s \in Sessions :
          FiringStep(s) =>
              LET d == detectors[s][DetectorAt(s)]
                  reported == DetectionsOf(out[s], streamId[s], d.name)
              IN  /\ d.detected <=> d.last_detected # NoTime
                  /\ d.detected <=> reported # {}
                  /\ d.detected => d.last_detected = out[s][Latest(reported)].at
                  /\ IF d.detected /\ clock' - d.last_detected < RefractorySeconds
                     THEN /\ detectors'[s] = detectors[s]
                          /\ out'[s] = out[s]
                     ELSE /\ Len(WrittenNow(s)) = 1
                          /\ WrittenNow(s)[1].type = "Detection"
                          /\ WrittenNow(s)[1].name = d.name]_vars

\* C20 witness: a detector reported at reading 0 fired again at reading 1:
\* one Detection only, the time still 0; it is at its next inference step.
C20_Witness ==
    \E s \in Sessions :
        /\ pos[s].pc = "detect"
        /\ clock = 1
        /\ LET d == detectors[s][DetectorAt(s)]
           IN  /\ d.detected /\ d.last_detected = 0
               /\ firings[s][DetectorAt(s)] = 2
               /\ Cardinality(DetectionsOf(out[s], streamId[s], d.name)) = 1

====
